---- MODULE Spec2Model ----
(***************************************************************************)
(* The grid map API (maps holding observers and obstacles) as a state      *)
(* machine: the persisted store, the response cache, and one action per    *)
(* HTTP request, each the whole handler from URL conversion to the         *)
(* teardown of the request's database session.                             *)
(***************************************************************************)
EXTENDS Integers, Sequences, FiniteSets, TLC

(***************************************************************************)
(* Bounds of the model.                                                    *)
(***************************************************************************)
\* Requests handled in one run.
MaxReq == 2
\* Largest width and height a request document asks for.
MaxDim == 2

(***************************************************************************)
(* Names and slugs.  A name is a sequence of characters; slugify lowers    *)
(* it, turns every run of other characters into one hyphen and strips the  *)
(* hyphens at both ends.                                                   *)
(***************************************************************************)
LowerChar(c) ==
    CASE c = "A" -> "a"
      [] c = "B" -> "b"
      [] OTHER -> c

IsSlugChar(c) == c \in {"a", "b", "0", "1"}

RECURSIVE Hyphenate(_)
Hyphenate(s) ==
    IF s = <<>> THEN <<>>
    ELSE LET c == LowerChar(Head(s))
             rest == Hyphenate(Tail(s))
         IN  IF IsSlugChar(c) THEN <<c>> \o rest
             ELSE IF rest # <<>> /\ Head(rest) = "-" THEN rest
             ELSE <<"-">> \o rest

RECURSIVE StripLeft(_)
StripLeft(s) ==
    IF s # <<>> /\ Head(s) = "-" THEN StripLeft(Tail(s)) ELSE s

RECURSIVE StripRight(_)
StripRight(s) ==
    IF s # <<>> /\ s[Len(s)] = "-" THEN StripRight(SubSeq(s, 1, Len(s) - 1)) ELSE s

slugify(name) == StripRight(StripLeft(Hyphenate(name)))

\* The names requests use: "A" and "a " differ as names and share the slug
\* "a"; "B" has a slug of its own.
Names == {<<"A">>, <<"a", " ">>, <<"B">>}
Slugs == {slugify(n) : n \in Names}

(***************************************************************************)
(* JSON documents.  A field holds a tagged value; a field the document     *)
(* does not carry is Absent.                                               *)
(***************************************************************************)
Absent == [t |-> "absent", v |-> <<>>]
JStr(s) == [t |-> "string", v |-> s]
JInt(n) == [t |-> "integer", v |-> <<n>>]
IntOf(j) == j.v[1]

\* python truthiness of the parsed body: an object with no member is falsy.
Truthy(doc) == \E f \in DOMAIN doc : doc[f].t # "absent"

\* jsonschema.validate for the three schemas: required members present,
\* declared types, numeric minimums; members the schema does not name pass.
TypeOk(j, type) ==
    CASE type = "string" -> j.t = "string"
      [] type = "integer" -> j.t = "integer"
      [] type = "number" -> j.t \in {"integer", "number"}

\* The longest name the schemas accept.
MaxNameLen == 32

\* A faulty variant of the property check: minimums are not enforced.
PropOk_no_minimum(j, prop) ==
    \/ j.t = "absent"
    \/ /\ TypeOk(j, prop.type)
       /\ prop.type = "string" => Len(j.v) <= MaxNameLen

PropOk(j, prop) ==
    \/ j.t = "absent"
    \/ /\ TypeOk(j, prop.type)
       /\ prop.hasMin => IntOf(j) >= prop.minimum
       /\ prop.type = "string" => Len(j.v) <= MaxNameLen

validate(doc, schema) ==
    /\ \A f \in schema.required : doc[f].t # "absent"
    /\ \A f \in DOMAIN schema.properties : PropOk(doc[f], schema.properties[f])

MapSchema ==
    [required |-> {"name", "width", "height"},
     properties |->
        [name |-> [type |-> "string", hasMin |-> FALSE, minimum |-> 0],
         width |-> [type |-> "integer", hasMin |-> TRUE, minimum |-> 1],
         height |-> [type |-> "integer", hasMin |-> TRUE, minimum |-> 1]]]

ObserverSchema ==
    [required |-> {"name", "x", "y"},
     properties |->
        [name |-> [type |-> "string", hasMin |-> FALSE, minimum |-> 0],
         vision |-> [type |-> "number", hasMin |-> TRUE, minimum |-> 0],
         x |-> [type |-> "integer", hasMin |-> TRUE, minimum |-> 0],
         y |-> [type |-> "integer", hasMin |-> TRUE, minimum |-> 0]]]

ObstacleSchema ==
    [required |-> {"x", "y"},
     properties |->
        [x |-> [type |-> "integer", hasMin |-> TRUE, minimum |-> 0],
         y |-> [type |-> "integer", hasMin |-> TRUE, minimum |-> 0]]]

(***************************************************************************)
(* The store: three tables.  A row is a record; ids are the table's        *)
(* integer primary keys.                                                   *)
(***************************************************************************)
EmptyStore == [maps |-> {}, observers |-> {}, obstacles |-> {}]

Ids(rows) == {r.id : r \in rows}
MaxOf(S) == CHOOSE n \in S : \A m \in S : m <= n
\* An integer primary key: one more than the largest key of the table.
NextId(rows) == IF rows = {} THEN 1 ELSE MaxOf(Ids(rows)) + 1

RECURSIVE ById(_)
\* The rows in primary key order, as a query returns them.
ById(rows) ==
    IF rows = {} THEN <<>>
    ELSE LET first == CHOOSE r \in rows : \A q \in rows : r.id <= q.id
         IN  <<first>> \o ById(rows \ {first})

\* Map.observers and Map.obstacles: the rows whose map_id is the map's id.
Map_observers(st, map) == {o \in st.observers : o.map_id = map.id}
Map_obstacles(st, map) == {o \in st.obstacles : o.map_id = map.id}
\* Observer.map and Obstacle.map: the map a child row refers to.
MapOf(st, child) == CHOOSE m \in st.maps : m.id = child.map_id

\* A faulty variant of the unique columns: the slug is not unique.
UniqueOn_name_only(rows) == \A r, q \in rows : r.id # q.id => r.name # q.name

\* The unique columns: Map.name, Map.slug, Observer.name, Observer.slug.
UniqueOn(rows) ==
    \A r, q \in rows : r.id # q.id => r.name # q.name /\ r.slug # q.slug
\* A faulty variant of the constraints: observers are not constrained.
IntegrityOk_maps_only(st) == UniqueOn(st.maps)
IntegrityOk(st) == UniqueOn(st.maps) /\ UniqueOn(st.observers)

(***************************************************************************)
(* Routing: paths are sequences of segments, converters turn a slug into   *)
(* a row (or fail with NotFound) and a row into its slug.                  *)
(***************************************************************************)
ApiPrefix == <<"api">>
MapsSeg == <<"maps">>
ObserversSeg == <<"observers">>
ObstaclesSeg == <<"obstacles">>
IntSeg(n) == <<ToString(n)>>

NotFound == [id |-> 0]
MapConverter_to_python(st, map_slug) ==
    IF \E m \in st.maps : m.slug = map_slug
    THEN CHOOSE m \in st.maps : m.slug = map_slug
    ELSE NotFound
MapConverter_to_url(map) == map.slug

ObserverConverter_to_python(st, obs_slug) ==
    IF \E o \in st.observers : o.slug = obs_slug
    THEN CHOOSE o \in st.observers : o.slug = obs_slug
    ELSE NotFound
ObserverConverter_to_url(observer) == observer.slug

url_mapcollection == <<ApiPrefix, MapsSeg>>
url_mapitem(map) == <<ApiPrefix, MapsSeg, MapConverter_to_url(map)>>
url_mapobservers(map) == url_mapitem(map) \o <<ObserversSeg>>
url_mapobstacles(map) == url_mapitem(map) \o <<ObstaclesSeg>>
url_observeritem(map, observer) ==
    url_mapobservers(map) \o <<ObserverConverter_to_url(observer)>>
\* A faulty variant of the obstacle route: y comes before x.
url_obstacleitem_y_first(map, x, y) ==
    url_mapobstacles(map) \o <<IntSeg(y), IntSeg(x)>>
url_obstacleitem(map, x, y) == url_mapobstacles(map) \o <<IntSeg(x), IntSeg(y)>>

\* The path of a request, from the slugs its URL carries.
MapItemPath(map_slug) == <<ApiPrefix, MapsSeg, map_slug>>
ObserverItemPath(map_slug, obs_slug) ==
    <<ApiPrefix, MapsSeg, map_slug, ObserversSeg, obs_slug>>

(***************************************************************************)
(* Serialization.  A body is a dictionary (a function on its keys); the    *)
(* hypermedia form adds "@controls" and, on the response's top level,      *)
(* "@namespaces".  Control titles are left out.                            *)
(***************************************************************************)
EmptyDict == [k \in {} |-> k]
None == [t |-> "null", v |-> <<>>]

JSON == "application/json"
MASON == "application/vnd.mason+json"
MAP_PROFILE == <<<<"profiles">>, <<"map">>>>
OBSERVER_PROFILE == <<<<"profiles">>, <<"observer">>>>
LINK_RELATIONS == <<<<"link-relations">>>>

\* MasonBuilder.add_control and its POST, PUT and DELETE shorthands: the
\* keys of one control; a key the builder does not set is "".
add_control(href) ==
    [href |-> href, method |-> "", encoding |-> "", schema |-> ""]
add_control_post(href, schema) ==
    [href |-> href, method |-> "POST", encoding |-> "json", schema |-> schema]
\* A faulty variant of add_control_put: the method is POST.
add_control_put_as_post(href, schema) ==
    [href |-> href, method |-> "POST", encoding |-> "json", schema |-> schema]
add_control_put(href, schema) ==
    [href |-> href, method |-> "PUT", encoding |-> "json", schema |-> schema]
add_control_delete(href) ==
    [href |-> href, method |-> "DELETE", encoding |-> "", schema |-> ""]
DELETE_RELATION == "pwp-map:delete"

\* A faulty variant of add_namespace: nothing is declared.
add_namespace_nothing(body) == body
add_namespace(body) == body @@ ("@namespaces" :> {"pwp-map"})

Obstacle_serialize(st, self, include_relations, use_mason) ==
    (IF use_mason
     THEN "@controls" :>
            (DELETE_RELATION :>
                add_control_delete(url_obstacleitem(MapOf(st, self), self.x, self.y)))
     ELSE EmptyDict)
    @@ [x |-> self.x, y |-> self.y]
    @@ (IF include_relations
        THEN [map_name |-> MapOf(st, self).name, map_slug |-> MapOf(st, self).slug]
        ELSE EmptyDict)

Observer_serialize(st, self, include_relations, use_mason, primary) ==
    (IF use_mason
     THEN "@controls" :>
            (("self" :> add_control(url_observeritem(MapOf(st, self), self)))
             @@ (IF primary
                 THEN ("up" :> add_control(url_mapitem(MapOf(st, self))))
                      @@ ("edit" :> add_control_put(
                            url_observeritem(MapOf(st, self), self), "Observer"))
                      @@ (DELETE_RELATION :> add_control_delete(
                            url_observeritem(MapOf(st, self), self)))
                      @@ ("profile" :> add_control(OBSERVER_PROFILE))
                 ELSE EmptyDict))
     ELSE EmptyDict)
    @@ [name |-> self.name, slug |-> self.slug, vision |-> self.vision,
        x |-> self.x, y |-> self.y]
    @@ (IF include_relations
        THEN [map_name |-> MapOf(st, self).name, map_slug |-> MapOf(st, self).slug]
        ELSE EmptyDict)

Map_serialize(st, self, include_relations, use_mason, primary) ==
    (IF use_mason
     THEN "@controls" :>
            (("self" :> add_control(url_mapitem(self)))
             @@ (IF primary
                 THEN ("collection" :> add_control(url_mapcollection))
                      @@ ("edit" :> add_control_put(url_mapitem(self), "Map"))
                      @@ (DELETE_RELATION :> add_control_delete(url_mapitem(self)))
                      @@ ("profile" :> add_control(MAP_PROFILE))
                      @@ ("pwp-map:create-observer" :>
                            add_control_post(url_mapobservers(self), "Observer"))
                      @@ ("pwp-map:create-obstacle" :>
                            add_control_post(url_mapobstacles(self), "Obstacle"))
                 ELSE EmptyDict))
     ELSE EmptyDict)
    @@ [name |-> self.name, slug |-> self.slug,
        width |-> self.width, height |-> self.height]
    @@ (IF include_relations
        THEN [observers |->
                [i \in 1..Cardinality(Map_observers(st, self)) |->
                    Observer_serialize(st, ById(Map_observers(st, self))[i],
                                       FALSE, use_mason, FALSE)],
              obstacles |->
                [i \in 1..Cardinality(Map_obstacles(st, self)) |->
                    Obstacle_serialize(st, ById(Map_obstacles(st, self))[i],
                                       FALSE, use_mason)]]
        ELSE EmptyDict)

Response(status, body, mimetype) ==
    [status |-> status, body |-> body, mimetype |-> mimetype]

\* The view methods behind the cache: the response each GET renders.
\* A faulty variant of the collection view: each map is serialized with its
\* observers and obstacles.
MapCollection_get_with_children(st) ==
    Response(200,
             [maps |-> [i \in 1..Cardinality(st.maps) |->
                          Map_serialize(st, ById(st.maps)[i], TRUE, FALSE, FALSE)]],
             JSON)

MapCollection_get(st) ==
    Response(200,
             [maps |-> [i \in 1..Cardinality(st.maps) |->
                          Map_serialize(st, ById(st.maps)[i], FALSE, FALSE, FALSE)]],
             JSON)

MapCollection_get_mason(st) ==
    Response(200,
             add_namespace(
                ("@controls" :>
                    (("self" :> add_control(url_mapcollection))
                     @@ ("pwp-map:create-map" :> add_control_post(url_mapcollection, "Map"))
                     @@ ("profile" :> add_control(MAP_PROFILE))))
                @@ [maps |-> [i \in 1..Cardinality(st.maps) |->
                          Map_serialize(st, ById(st.maps)[i], FALSE, TRUE, FALSE)]]),
             MASON)

MapItem_get(st, map) ==
    Response(200, Map_serialize(st, map, TRUE, FALSE, FALSE), JSON)

MapItem_get_mason(st, map) ==
    Response(200, add_namespace(Map_serialize(st, map, TRUE, TRUE, TRUE)), MASON)

ObserverItem_get(st, map, observer) ==
    Response(200, Observer_serialize(st, observer, TRUE, FALSE, FALSE), JSON)

ObserverItem_get_mason(st, map, observer) ==
    Response(200, add_namespace(Observer_serialize(st, observer, FALSE, TRUE, TRUE)), JSON)

(***************************************************************************)
(* One request.  The handler works on a context: the committed store, the  *)
(* session's view of it (with the handler's uncommitted changes), the      *)
(* cache, the steps taken so far and the response once there is one.       *)
(***************************************************************************)
NoResponse == [status |-> 0, body |-> EmptyDict, mimetype |-> "", location |-> <<>>]

Begin(st, ca) ==
    [store |-> st, sess |-> st, cache |-> ca, trace |-> <<>>, resp |-> NoResponse]

Step(c, name) == [c EXCEPT !.trace = Append(@, name)]

\* An HTTP exception leaves the handler: what the session holds stays
\* uncommitted, no later step runs.
Raise(c, status) == [c EXCEPT !.resp = [NoResponse EXCEPT !.status = status]]

Respond(c, status, location) ==
    [Step(c, "respond") EXCEPT !.resp = [NoResponse EXCEPT !.status = status,
                                                         !.location = location]]

\* A faulty variant of the unique columns: no constraint, no flush fails.
NoUniqueConstraint(c) == FALSE

\* db.session.commit(): the flush meets the unique constraints or fails with
\* IntegrityError, which leaves the store as it was.
CommitFails(c) == ~IntegrityOk(c.sess)
session_commit(c) ==
    IF CommitFails(c) THEN Step(c, "IntegrityError")
    ELSE [Step(c, "commit") EXCEPT !.store = c.sess]

\* A faulty variant of the teardown: it commits what the session holds.
commit_on_teardown(c) == [c EXCEPT !.store = c.sess]

\* The session is removed when the request's context is torn down: what was
\* not committed is rolled back.
shutdown_session(c) == [c EXCEPT !.sess = c.store]

\* cache.delete_many(keys)
delete_many(c, keys) ==
    [Step(c, "invalidate") EXCEPT
        !.cache = [k \in DOMAIN c.cache \ keys |-> c.cache[k]]]

\* A faulty variant of the key prefixes: both views use the same prefix.
CacheKey_one_prefix(view, path) == [view |-> "json-view", path |-> path]
CacheKey(view, path) == [view |-> view, path |-> path]
ViewKeys(path) == {CacheKey("json-view", path), CacheKey("mason-view", path)}

\* cache.cached(timeout=None, key_prefix=...): the stored response when the
\* key is present, else the view's response, stored under the key.
cached(c, view, path, rendered) ==
    LET key == CacheKey(view, path)
    IN  IF key \in DOMAIN c.cache
        THEN [Step(c, "hit") EXCEPT
                !.resp = c.cache[key] @@ [location |-> <<>>]]
        ELSE [Step(c, "render") EXCEPT
                !.cache = (key :> rendered) @@ c.cache,
                !.resp = rendered @@ [location |-> <<>>]]

(***************************************************************************)
(* The models' constructors and updates.                                   *)
(***************************************************************************)
Map_deserialize(d) ==
    [id |-> 0, name |-> d.name.v, slug |-> slugify(d.name.v),
     width |-> IntOf(d.width), height |-> IntOf(d.height)]

\* A faulty variant of Map.update_from_dict: the slug is not recomputed.
Map_update_keeps_slug(self, d) ==
    [self EXCEPT !.name = d.name.v,
                 !.width = IntOf(d.width), !.height = IntOf(d.height)]

Map_update_from_dict(self, d) ==
    [self EXCEPT !.name = d.name.v, !.slug = slugify(d.name.v),
                 !.width = IntOf(d.width), !.height = IntOf(d.height)]

\* object_dict.get("vision"): None when the document has no vision.
GetVision(d) == IF d.vision.t = "absent" THEN None ELSE d.vision

Observer_deserialize(d) ==
    [id |-> 0, name |-> d.name.v, slug |-> slugify(d.name.v),
     vision |-> GetVision(d), map_id |-> 0, x |-> IntOf(d.x), y |-> IntOf(d.y)]

\* A faulty variant of Observer.update_from_dict: a document with no vision
\* keeps the vision the observer had.
Observer_update_keeps_vision(self, d) ==
    [self EXCEPT !.name = d.name.v, !.slug = slugify(d.name.v),
                 !.vision = IF d.vision.t = "absent" THEN @ ELSE d.vision,
                 !.x = IntOf(d.x), !.y = IntOf(d.y)]

Observer_update_from_dict(self, d) ==
    [self EXCEPT !.name = d.name.v, !.slug = slugify(d.name.v),
                 !.vision = GetVision(d), !.x = IntOf(d.x), !.y = IntOf(d.y)]

Obstacle_deserialize(d) ==
    [id |-> 0, map_id |-> 0, x |-> IntOf(d.x), y |-> IntOf(d.y)]

\* A faulty variant of the spatial check: the far edges are off by one.
InsideMap_inclusive(child, map) ==
    /\ 0 <= child.x /\ child.x <= map.width
    /\ 0 <= child.y /\ child.y <= map.height

\* The spatial check of the three writing handlers.
InsideMap(child, map) ==
    /\ 0 <= child.x /\ child.x < map.width
    /\ 0 <= child.y /\ child.y < map.height

\* The session's pending changes.
AddMap(c, map) ==
    [c EXCEPT !.sess.maps = @ \cup {[map EXCEPT !.id = NextId(c.sess.maps)]}]
AddObserver(c, map, observer) ==
    [c EXCEPT !.sess.observers =
        @ \cup {[observer EXCEPT !.id = NextId(c.sess.observers),
                                 !.map_id = map.id]}]
\* A faulty variant of the obstacle insert: a tile holds one obstacle.
AddObstacle_free_tile_only(c, map, obstacle) ==
    IF \E o \in Map_obstacles(c.sess, map) : o.x = obstacle.x /\ o.y = obstacle.y
    THEN c
    ELSE [c EXCEPT !.sess.obstacles =
            @ \cup {[obstacle EXCEPT !.id = NextId(c.sess.obstacles),
                                     !.map_id = map.id]}]
AddObstacle(c, map, obstacle) ==
    [c EXCEPT !.sess.obstacles =
        @ \cup {[obstacle EXCEPT !.id = NextId(c.sess.obstacles),
                                 !.map_id = map.id]}]
\* A faulty variant of the map update: children outside the new size go.
SetMap_prunes_children(c, old, new) ==
    [c EXCEPT !.sess.maps = (@ \ {old}) \cup {new},
              !.sess.observers = {o \in @ : o.map_id = old.id => InsideMap(o, new)},
              !.sess.obstacles = {o \in @ : o.map_id = old.id => InsideMap(o, new)}]
SetMap(c, old, new) ==
    [c EXCEPT !.sess.maps = (@ \ {old}) \cup {new}]
SetObserver(c, old, new) ==
    [c EXCEPT !.sess.observers = (@ \ {old}) \cup {new}]
\* A faulty variant of the relationships: the delete does not cascade.
DeleteMap_no_cascade(c, map) == [c EXCEPT !.sess.maps = @ \ {map}]
\* db.session.delete(map): the relationships cascade to the map's children.
DeleteMap(c, map) ==
    [c EXCEPT !.sess.maps = @ \ {map},
              !.sess.observers = @ \ Map_observers(c.sess, map),
              !.sess.obstacles = @ \ Map_obstacles(c.sess, map)]
DeleteObserver(c, observer) ==
    [c EXCEPT !.sess.observers = @ \ {observer}]
\* A faulty variant of the obstacle delete: the filter leaves x and y out.
DeleteObstaclesAt_whole_map(c, map, x, y) ==
    [c EXCEPT !.sess.obstacles = {o \in @ : o.map_id # map.id}]
\* Obstacle.query.filter_by(map_id=map.id, x=x, y=y).delete()
DeleteObstaclesAt(c, map, x, y) ==
    [c EXCEPT !.sess.obstacles =
        {o \in @ : ~(o.map_id = map.id /\ o.x = x /\ o.y = y)}]

(***************************************************************************)
(* Requests and their paths.                                               *)
(***************************************************************************)
RequestPath(req) ==
    CASE req.route = "mapcollection" -> url_mapcollection
      [] req.route = "mapitem" -> MapItemPath(req.map)
      [] req.route = "mapobservers" -> MapItemPath(req.map) \o <<ObserversSeg>>
      [] req.route = "mapobstacles" -> MapItemPath(req.map) \o <<ObstaclesSeg>>
      [] req.route = "observeritem" -> ObserverItemPath(req.map, req.observer)
      [] req.route = "obstacleitem" ->
            MapItemPath(req.map) \o <<ObstaclesSeg, IntSeg(req.x), IntSeg(req.y)>>

\* The key prefix of the view method the Accept header selects.
ViewOf(accept) == IF accept = MASON THEN "mason-view" ELSE "json-view"

\* request.json is None unless the body was sent as JSON.
RequestJson(req) == req.json /\ Truthy(req.doc)

(***************************************************************************)
(* The resources.                                                          *)
(***************************************************************************)
MapCollection_clean_cache(c, req) == delete_many(c, ViewKeys(RequestPath(req)))

MapCollection_post(c, req) ==
    IF ~RequestJson(req) THEN Raise(Step(c, "content-type"), 415)
    ELSE IF ~validate(req.doc, MapSchema)
    THEN Raise(Step(Step(c, "content-type"), "schema"), 400)
    ELSE LET c1 == AddMap(Step(Step(c, "content-type"), "schema"),
                          Map_deserialize(req.doc))
         IN  IF CommitFails(c1) THEN Raise(session_commit(c1), 409)
             ELSE Respond(MapCollection_clean_cache(session_commit(c1), req), 201,
                          url_mapitem(Map_deserialize(req.doc)))

\* A faulty variant of MapItem._clean_cache: the item's own keys are left.
MapItem_clean_collection_only(c, req) == delete_many(c, ViewKeys(url_mapcollection))

MapItem_clean_cache(c, req) ==
    delete_many(c, ViewKeys(url_mapcollection) \cup ViewKeys(RequestPath(req)))

\* A faulty variant of MapItem.put: the IntegrityError is swallowed.
MapItem_put_swallows_conflict(c, req, map) ==
    IF ~RequestJson(req) THEN Raise(Step(c, "content-type"), 415)
    ELSE IF ~validate(req.doc, MapSchema)
    THEN Raise(Step(Step(c, "content-type"), "schema"), 400)
    ELSE Respond(delete_many(
                    session_commit(SetMap(Step(Step(c, "content-type"), "schema"),
                                          map, Map_update_from_dict(map, req.doc))),
                    ViewKeys(url_mapcollection) \cup ViewKeys(RequestPath(req))),
                 204, <<>>)

MapItem_put(c, req, map) ==
    IF ~RequestJson(req) THEN Raise(Step(c, "content-type"), 415)
    ELSE IF ~validate(req.doc, MapSchema)
    THEN Raise(Step(Step(c, "content-type"), "schema"), 400)
    ELSE LET c1 == SetMap(Step(Step(c, "content-type"), "schema"),
                          map, Map_update_from_dict(map, req.doc))
         IN  IF CommitFails(c1) THEN Raise(session_commit(c1), 409)
             ELSE Respond(MapItem_clean_cache(session_commit(c1), req), 204, <<>>)

\* A faulty variant of MapItem.delete: the row is never marked for deletion.
MapItem_delete_nothing(c, req, map) ==
    Respond(delete_many(session_commit(c),
                        ViewKeys(url_mapcollection) \cup ViewKeys(RequestPath(req))),
            204, <<>>)

MapItem_delete(c, req, map) ==
    Respond(MapItem_clean_cache(session_commit(DeleteMap(c, map)), req), 204, <<>>)

\* A faulty variant of MapObservers._clean_cache: the collection goes too.
MapObservers_clean_with_collection(c, parent) ==
    delete_many(c, ViewKeys(url_mapitem(parent)) \cup ViewKeys(url_mapcollection))

MapObservers_clean_cache(c, parent) == delete_many(c, ViewKeys(url_mapitem(parent)))

\* A faulty variant of MapObservers.post: the observer is persisted before
\* its position is checked.
MapObservers_post_persist_first(c, req, map) ==
    IF ~RequestJson(req) THEN Raise(Step(c, "content-type"), 415)
    ELSE IF ~validate(req.doc, ObserverSchema)
    THEN Raise(Step(Step(c, "content-type"), "schema"), 400)
    ELSE LET c0 == Step(Step(c, "content-type"), "schema")
             observer == Observer_deserialize(req.doc)
             c1 == AddObserver(c0, map, observer)
         IN  IF CommitFails(c1) THEN Raise(session_commit(c1), 409)
             ELSE IF ~InsideMap(observer, map) THEN Raise(Step(c0, "spatial"), 400)
             ELSE Respond(MapObservers_clean_cache(
                            session_commit(Step(c1, "spatial")), map), 201,
                          url_observeritem(map, observer))

MapObservers_post(c, req, map) ==
    IF ~RequestJson(req) THEN Raise(Step(c, "content-type"), 415)
    ELSE IF ~validate(req.doc, ObserverSchema)
    THEN Raise(Step(Step(c, "content-type"), "schema"), 400)
    ELSE LET c0 == Step(Step(Step(c, "content-type"), "schema"), "spatial")
             observer == Observer_deserialize(req.doc)
             c1 == AddObserver(c0, map, observer)
         IN  IF ~InsideMap(observer, map) THEN Raise(c0, 400)
             ELSE IF CommitFails(c1) THEN Raise(session_commit(c1), 409)
             ELSE Respond(MapObservers_clean_cache(session_commit(c1), map), 201,
                          url_observeritem(map, observer))

MapObstacles_clean_cache(c, parent) == delete_many(c, ViewKeys(url_mapitem(parent)))

MapObstacles_post(c, req, map) ==
    IF ~RequestJson(req) THEN Raise(Step(c, "content-type"), 415)
    ELSE IF ~validate(req.doc, ObstacleSchema)
    THEN Raise(Step(Step(c, "content-type"), "schema"), 400)
    ELSE LET c0 == Step(Step(Step(c, "content-type"), "schema"), "spatial")
             obstacle == Obstacle_deserialize(req.doc)
             c1 == AddObstacle(c0, map, obstacle)
         IN  IF ~InsideMap(obstacle, map) THEN Raise(c0, 400)
             ELSE Respond(MapObstacles_clean_cache(session_commit(c1), map), 201,
                          url_obstacleitem(map, obstacle.x, obstacle.y))

ObserverItem_clean_cache(c, req, parent) ==
    delete_many(c, ViewKeys(url_mapitem(parent)) \cup ViewKeys(RequestPath(req)))

ObserverItem_put(c, req, map, observer) ==
    IF ~RequestJson(req) THEN Raise(Step(c, "content-type"), 415)
    ELSE IF ~validate(req.doc, ObserverSchema)
    THEN Raise(Step(Step(c, "content-type"), "schema"), 400)
    ELSE LET updated == Observer_update_from_dict(observer, req.doc)
             c1 == Step(SetObserver(Step(Step(c, "content-type"), "schema"),
                                    observer, updated), "spatial")
         IN  IF ~InsideMap(updated, map) THEN Raise(c1, 400)
             ELSE IF CommitFails(c1) THEN Raise(session_commit(c1), 409)
             ELSE Respond(ObserverItem_clean_cache(session_commit(c1), req, map),
                          204, <<>>)

ObserverItem_delete(c, req, map, observer) ==
    Respond(ObserverItem_clean_cache(session_commit(DeleteObserver(c, observer)),
                                     req, map), 204, <<>>)

ObstacleItem_clean_cache(c, parent) == delete_many(c, ViewKeys(url_mapitem(parent)))

ObstacleItem_delete(c, req, map) ==
    Respond(ObstacleItem_clean_cache(DeleteObstaclesAt(c, map, req.x, req.y), map),
            204, <<>>)

(***************************************************************************)
(* Dispatch: the URL converters run first (an unknown slug is NotFound     *)
(* whatever the method and the body), then the view method the HTTP method *)
(* and the Accept header select.                                           *)
(***************************************************************************)
MapCollection_dispatch(c, req) ==
    IF req.method = "GET"
    THEN cached(c, ViewOf(req.accept), RequestPath(req),
                IF req.accept = MASON THEN MapCollection_get_mason(c.sess)
                ELSE MapCollection_get(c.sess))
    ELSE MapCollection_post(c, req)

MapItem_dispatch(c, req, map) ==
    CASE req.method = "GET" ->
            cached(c, ViewOf(req.accept), RequestPath(req),
                   IF req.accept = MASON THEN MapItem_get_mason(c.sess, map)
                   ELSE MapItem_get(c.sess, map))
      [] req.method = "PUT" -> MapItem_put(c, req, map)
      [] req.method = "DELETE" -> MapItem_delete(c, req, map)

ObserverItem_dispatch(c, req, map, observer) ==
    CASE req.method = "GET" ->
            cached(c, ViewOf(req.accept), RequestPath(req),
                   IF req.accept = MASON
                   THEN ObserverItem_get_mason(c.sess, map, observer)
                   ELSE ObserverItem_get(c.sess, map, observer))
      [] req.method = "PUT" -> ObserverItem_put(c, req, map, observer)
      [] req.method = "DELETE" -> ObserverItem_delete(c, req, map, observer)

\* A faulty variant of the routing: the cache is looked at before the URL's
\* slugs are resolved.
dispatch_cache_first(c, req) ==
    IF req.method = "GET"
          /\ CacheKey(ViewOf(req.accept), RequestPath(req)) \in DOMAIN c.cache
    THEN cached(c, ViewOf(req.accept), RequestPath(req), NoResponse)
    ELSE IF req.route = "mapcollection" THEN MapCollection_dispatch(c, req)
        ELSE LET map == MapConverter_to_python(c.sess, req.map)
                 observer == ObserverConverter_to_python(c.sess, req.observer)
             IN  IF map = NotFound THEN Raise(c, 404)
                 ELSE CASE req.route = "mapitem" ->
                             MapItem_dispatch(Step(c, "resolve"), req, map)
                        [] req.route = "mapobservers" ->
                             MapObservers_post(Step(c, "resolve"), req, map)
                        [] req.route = "mapobstacles" ->
                             MapObstacles_post(Step(c, "resolve"), req, map)
                        [] req.route = "obstacleitem" ->
                             ObstacleItem_delete(Step(c, "resolve"), req, map)
                        [] req.route = "observeritem" ->
                             IF observer = NotFound THEN Raise(c, 404)
                             ELSE ObserverItem_dispatch(Step(c, "resolve"), req,
                                                        map, observer)

dispatch_request(c, req) ==
    IF req.route = "mapcollection" THEN MapCollection_dispatch(c, req)
    ELSE LET map == MapConverter_to_python(c.sess, req.map)
             observer == ObserverConverter_to_python(c.sess, req.observer)
         IN  IF map = NotFound THEN Raise(c, 404)
             ELSE CASE req.route = "mapitem" ->
                         MapItem_dispatch(Step(c, "resolve"), req, map)
                    [] req.route = "mapobservers" ->
                         MapObservers_post(Step(c, "resolve"), req, map)
                    [] req.route = "mapobstacles" ->
                         MapObstacles_post(Step(c, "resolve"), req, map)
                    [] req.route = "obstacleitem" ->
                         ObstacleItem_delete(Step(c, "resolve"), req, map)
                    [] req.route = "observeritem" ->
                         IF observer = NotFound THEN Raise(c, 404)
                         ELSE ObserverItem_dispatch(Step(c, "resolve"), req,
                                                    map, observer)

\* The whole request: dispatch, then the teardown of its session.
full_dispatch_request(st, ca, req) ==
    shutdown_session(dispatch_request(Begin(st, ca), req))

(***************************************************************************)
(* The request documents of the model.                                     *)
(***************************************************************************)
NoDoc ==
    [id |-> Absent, name |-> Absent, slug |-> Absent, width |-> Absent,
     height |-> Absent, vision |-> Absent, x |-> Absent, y |-> Absent]

MapDoc(n, w, h) ==
    [NoDoc EXCEPT !.name = JStr(n), !.width = JInt(w), !.height = JInt(h)]
ObserverDoc(n, x, y) ==
    [NoDoc EXCEPT !.name = JStr(n), !.x = JInt(x), !.y = JInt(y)]
ObstacleDoc(x, y) == [NoDoc EXCEPT !.x = JInt(x), !.y = JInt(y)]

NameA == <<"A">>
NameB == <<"B">>
\* A document that carries an id and a slug of its own choosing.
WithIdAndSlug(doc) == [doc EXCEPT !.id = JInt(9), !.slug = JStr(slugify(NameA))]

\* Schema-valid map documents: every name at the largest size, a smallest
\* map, and a map one tile high.
ValidMapDocs ==
    {MapDoc(n, MaxDim, MaxDim) : n \in Names}
    \cup {MapDoc(NameA, 1, 1), WithIdAndSlug(MapDoc(NameB, MaxDim, 1))}
InvalidMapDocs ==
    {NoDoc,
     [MapDoc(NameA, 1, 1) EXCEPT !.width = Absent],
     [MapDoc(NameA, 1, 1) EXCEPT !.height = JStr(NameA)],
     MapDoc(NameA, 0, 1)}
MapDocs == ValidMapDocs \cup InvalidMapDocs

\* Schema-valid observer documents; those at MaxDim lie outside every map.
ValidObserverDocs ==
    {ObserverDoc(NameA, 0, 0), ObserverDoc(<<"a", " ">>, 0, 0),
     [WithIdAndSlug(ObserverDoc(NameB, 0, 0)) EXCEPT !.vision = JInt(1)],
     ObserverDoc(NameA, MaxDim - 1, MaxDim - 1),
     ObserverDoc(NameB, MaxDim, 0), ObserverDoc(NameB, 0, MaxDim)}
InvalidObserverDocs ==
    {NoDoc,
     [ObserverDoc(NameA, 0, 0) EXCEPT !.y = Absent],
     [ObserverDoc(NameA, 0, 0) EXCEPT !.name = JInt(1)],
     ObserverDoc(NameA, -1, 0),
     [ObserverDoc(NameA, 0, 0) EXCEPT !.vision = JInt(-1)]}
ObserverDocs == ValidObserverDocs \cup InvalidObserverDocs

\* Schema-valid obstacle documents: two tiles inside the largest map, one of
\* them off the diagonal, and two outside every map.
ValidObstacleDocs ==
    {ObstacleDoc(0, 0), ObstacleDoc(0, MaxDim - 1),
     ObstacleDoc(MaxDim, 0), ObstacleDoc(0, MaxDim)}
InvalidObstacleDocs ==
    {NoDoc, [ObstacleDoc(0, 0) EXCEPT !.y = Absent], ObstacleDoc(0, -1)}
ObstacleDocs == ValidObstacleDocs \cup InvalidObstacleDocs

Request(method, route, map, observer, x, y, accept, json, doc) ==
    [method |-> method, route |-> route, map |-> map, observer |-> observer,
     x |-> x, y |-> y, accept |-> accept, json |-> json, doc |-> doc]

NoRequest == Request("", "", <<>>, <<>>, 0, 0, "", FALSE, NoDoc)

(***************************************************************************)
(* The state machine.                                                      *)
(***************************************************************************)
VARIABLES
    store,      \* the committed tables
    cache,      \* the response cache: key -> response
    request,    \* the last request handled
    response,   \* its response
    trace,      \* the steps its handler took
    before,     \* the store and the cache as that request found them, and
                \* the status of the request before it if it repeats that one
    nreq,       \* requests handled so far
    handlers    \* the handlers in flight when requests are served in parallel

vars == <<store, cache, request, response, trace, before, nreq, handlers>>

\* The store tests/utils.py populates, scaled to the model's dimensions: a
\* map with one observer and one obstacle, and an empty second map.
TestStore ==
    [maps |-> {[id |-> 1, name |-> NameA, slug |-> slugify(NameA),
                width |-> MaxDim, height |-> MaxDim],
               [id |-> 2, name |-> NameB, slug |-> slugify(NameB),
                width |-> 1, height |-> 1]},
     observers |-> {[id |-> 1, name |-> NameA, slug |-> slugify(NameA),
                     vision |-> JInt(1), map_id |-> 1, x |-> 0, y |-> 0]},
     obstacles |-> {[id |-> 1, map_id |-> 1, x |-> MaxDim - 1, y |-> MaxDim - 1]}]

\* The requests of the model, one set per route and method.
Accepts == {JSON, MASON}
\* A body sent as JSON with each document of docs, or not as JSON.
Bodies(docs, other) == {<<TRUE, d>> : d \in docs} \cup {<<FALSE, other>>}

MapCollectionGetRequests ==
    {Request("GET", "mapcollection", <<>>, <<>>, 0, 0, a, FALSE, NoDoc) : a \in Accepts}
MapCollectionPostRequests ==
    {Request("POST", "mapcollection", <<>>, <<>>, 0, 0, "", b[1], b[2]) :
        b \in Bodies(MapDocs, MapDoc(NameA, 1, 1))}
MapItemGetRequests ==
    {Request("GET", "mapitem", m, <<>>, 0, 0, a, FALSE, NoDoc) :
        m \in Slugs, a \in Accepts}
MapItemPutRequests ==
    {Request("PUT", "mapitem", m, <<>>, 0, 0, "", b[1], b[2]) :
        m \in Slugs, b \in Bodies(MapDocs, MapDoc(NameA, 1, 1))}
MapItemDeleteRequests ==
    {Request("DELETE", "mapitem", m, <<>>, 0, 0, "", FALSE, NoDoc) : m \in Slugs}
MapObserversPostRequests ==
    {Request("POST", "mapobservers", m, <<>>, 0, 0, "", b[1], b[2]) :
        m \in Slugs, b \in Bodies(ObserverDocs, ObserverDoc(NameB, MaxDim, 0))}
MapObstaclesPostRequests ==
    {Request("POST", "mapobstacles", m, <<>>, 0, 0, "", b[1], b[2]) :
        m \in Slugs, b \in Bodies(ObstacleDocs, ObstacleDoc(MaxDim, 0))}
ObserverItemGetRequests ==
    {Request("GET", "observeritem", m, o, 0, 0, a, FALSE, NoDoc) :
        m \in Slugs, o \in Slugs, a \in Accepts}
ObserverItemPutRequests ==
    {Request("PUT", "observeritem", m, o, 0, 0, "", b[1], b[2]) :
        m \in Slugs, o \in Slugs, b \in Bodies(ObserverDocs, ObserverDoc(NameB, MaxDim, 0))}
ObserverItemDeleteRequests ==
    {Request("DELETE", "observeritem", m, o, 0, 0, "", FALSE, NoDoc) :
        m \in Slugs, o \in Slugs}
ObstacleItemDeleteRequests ==
    {Request("DELETE", "obstacleitem", m, <<>>, d, d, "", FALSE, NoDoc) :
        m \in Slugs, d \in {0, MaxDim - 1}}

GetRequests ==
    MapCollectionGetRequests \cup MapItemGetRequests \cup ObserverItemGetRequests

RequestKey(req) == CacheKey(ViewOf(req.accept), RequestPath(req))

\* What a GET answers when nothing is cached.
Fresh(st, req) == full_dispatch_request(st, EmptyDict, req).resp

\* The cache once every GET that succeeds on the store has been made.
WarmCache(st) ==
    LET hits == {r \in GetRequests : Fresh(st, r).status = 200}
    IN  [k \in {RequestKey(r) : r \in hits} |->
            LET r == CHOOSE q \in hits : RequestKey(q) = k
            IN  full_dispatch_request(st, EmptyDict, r).cache[k]]

\* A handler: its request, where it stands, the steps it took, what it holds
\* for its next step (the response a GET rendered, the keys a mutation will
\* delete) and its response once it has one.
IdleHandler ==
    [pc |-> "idle", req |-> NoRequest, trace |-> <<>>, entry |-> NoResponse,
     keys |-> {}, resp |-> NoResponse]
\* The handlers in flight at once when requests are served in parallel: the
\* pair whose steps interleave.
Handlers == 1..2
NoHandlers == [h \in Handlers |-> IdleHandler]

\* A new process on an empty or a populated store, with nothing cached or
\* after its clients have fetched every resource.
Init ==
    /\ store \in {EmptyStore, TestStore}
    /\ cache \in {EmptyDict} \cup (IF store = TestStore THEN {WarmCache(store)} ELSE {})
    /\ request = NoRequest
    /\ response = NoResponse
    /\ trace = <<>>
    /\ before = [store |-> store, cache |-> cache, prior |-> 0]
    /\ nreq = 0
    /\ handlers = NoHandlers

Handle(req) ==
    /\ nreq < MaxReq
    /\ \E c \in {full_dispatch_request(store, cache, req)} :
           /\ store' = c.store
           /\ cache' = c.cache
           /\ response' = c.resp
           /\ trace' = c.trace
    /\ before' = [store |-> store, cache |-> cache,
                   prior |-> IF req = request THEN response.status ELSE 0]
    /\ request' = req
    /\ nreq' = nreq + 1
    /\ UNCHANGED handlers

MapCollectionGet == \E req \in MapCollectionGetRequests : Handle(req)

MapCollectionPost == \E req \in MapCollectionPostRequests : Handle(req)

MapItemGet == \E req \in MapItemGetRequests : Handle(req)

MapItemPut == \E req \in MapItemPutRequests : Handle(req)

MapItemDelete == \E req \in MapItemDeleteRequests : Handle(req)

MapObserversPost == \E req \in MapObserversPostRequests : Handle(req)

MapObstaclesPost == \E req \in MapObstaclesPostRequests : Handle(req)

ObserverItemGet == \E req \in ObserverItemGetRequests : Handle(req)

ObserverItemPut == \E req \in ObserverItemPutRequests : Handle(req)

ObserverItemDelete == \E req \in ObserverItemDeleteRequests : Handle(req)

ObstacleItemDelete == \E req \in ObstacleItemDeleteRequests : Handle(req)

Next ==
    \/ MapCollectionGet
    \/ MapCollectionPost
    \/ MapItemGet
    \/ MapItemPut
    \/ MapItemDelete
    \/ MapObserversPost
    \/ MapObstaclesPost
    \/ ObserverItemGet
    \/ ObserverItemPut
    \/ ObserverItemDelete
    \/ ObstacleItemDelete

Spec == Init /\ [][Next]_vars

(***************************************************************************)
(* Requests served in parallel.  A handler touches the shared store and    *)
(* the shared cache one operation at a time: a GET looks its key up and,   *)
(* on a miss, renders from the store, and later puts what it rendered      *)
(* into the cache; a mutation runs its transaction (the unique constraints *)
(* are decided by the commit) and later deletes its keys.  Other handlers  *)
(* take their steps in between.                                            *)
(***************************************************************************)
\* Every key a GET view stores under.
AllKeys == {RequestKey(r) : r \in GetRequests}

\* The keys a mutation's handler passes to cache.delete_many: the keys it
\* takes out of a cache that holds every key.
DeletedKeys(st, req) ==
    AllKeys \ DOMAIN dispatch_request(Begin(st, [k \in AllKeys |-> NoResponse]),
                                      req).cache

\* The requests served in parallel: the plain GETs of the collection, of map
\* "a" and of its observer "a", and mutations of each kind on them.
ParallelRequests ==
    {r \in GetRequests :
        /\ r.accept = JSON
        /\ r.map \in {<<>>, slugify(NameA)}
        /\ r.observer \in {<<>>, slugify(NameA)}}
    \cup {r \in MapCollectionPostRequests :
            r.json /\ r.doc = MapDoc(NameA, MaxDim, MaxDim)}
    \cup {r \in MapItemPutRequests :
            /\ r.map = slugify(NameA) /\ r.json
            /\ r.doc = MapDoc(<<"a", " ">>, MaxDim, MaxDim)}
    \cup {r \in MapItemDeleteRequests : r.map = slugify(NameA)}
    \cup {r \in MapObserversPostRequests :
            r.json /\ r.doc.name = JStr(NameB) /\ r.doc.x = JInt(0)
                   /\ r.doc.y = JInt(0)}
    \cup {r \in ObserverItemPutRequests :
            /\ r.map = slugify(NameA) /\ r.observer = slugify(NameA) /\ r.json
            /\ r.doc = ObserverDoc(<<"a", " ">>, 0, 0)}
    \cup {r \in ObserverItemDeleteRequests :
            r.map = slugify(NameA) /\ r.observer = slugify(NameA)}
    \cup {r \in MapObstaclesPostRequests :
            r.map = slugify(NameA) /\ r.json /\ r.doc = ObstacleDoc(0, 0)}
    \cup {r \in ObstacleItemDeleteRequests :
            r.map = slugify(NameA) /\ r.x = MaxDim - 1}

ParallelInit ==
    /\ store \in {EmptyStore, TestStore}
    /\ cache \in {EmptyDict} \cup (IF store = TestStore THEN {WarmCache(store)} ELSE {})
    /\ request = NoRequest
    /\ response = NoResponse
    /\ trace = <<>>
    /\ before = [store |-> store, cache |-> cache, prior |-> 0]
    /\ nreq = 0
    /\ handlers = NoHandlers

\* A request arrives and a handler begins.
Arrive ==
    \E h \in Handlers, req \in ParallelRequests :
        /\ handlers[h].pc = "idle"
        /\ \A g \in 1..(h - 1) : handlers[g].pc # "idle"
        /\ handlers' = [handlers EXCEPT ![h].pc = "begun", ![h].req = req]
        /\ UNCHANGED <<store, cache, request, response, trace, before, nreq>>

\* A GET resolves its URL and looks its key up: a hit is its response, on a
\* miss it renders the view from the store.
LookupOf(h) ==
    /\ handlers[h].pc = "begun"
    /\ handlers[h].req.method = "GET"
    /\ \E c \in {dispatch_request(Begin(store, cache), handlers[h].req)} :
          handlers' =
            IF c.trace # <<>> /\ c.trace[Len(c.trace)] = "render"
            THEN [handlers EXCEPT
                    ![h].pc = "rendered",
                    ![h].trace = c.trace,
                    ![h].entry = c.cache[RequestKey(handlers[h].req)]]
            ELSE [handlers EXCEPT
                    ![h].pc = "done",
                    ![h].trace = c.trace,
                    ![h].resp = c.resp]
    /\ UNCHANGED <<store, cache, request, response, trace, before, nreq>>

\* The GET puts what it rendered into the cache and responds with it.
PutOf(h) ==
    /\ handlers[h].pc = "rendered"
    /\ cache' = (RequestKey(handlers[h].req) :> handlers[h].entry) @@ cache
    /\ handlers' = [handlers EXCEPT
                      ![h].pc = "done",
                      ![h].trace = Append(@, "set"),
                      ![h].resp = handlers[h].entry @@ [location |-> <<>>]]
    /\ UNCHANGED <<store, request, response, trace, before, nreq>>

\* The steps of a handler before it deletes cache keys.
UpToInvalidate(steps) ==
    IF \E i \in DOMAIN steps : steps[i] = "invalidate"
    THEN SubSeq(steps, 1,
                (CHOOSE i \in DOMAIN steps : steps[i] = "invalidate") - 1)
    ELSE steps

\* A faulty variant of the transaction step: a handler whose commit met a
\* conflict tries again instead of responding.
TransactOf_retry(h) ==
    /\ handlers[h].pc = "begun"
    /\ handlers[h].req.method # "GET"
    /\ \E c \in {full_dispatch_request(store, cache, handlers[h].req)} :
          /\ store' = c.store
          /\ handlers' =
                IF c.resp.status = 409 THEN handlers
                ELSE IF UpToInvalidate(c.trace) # c.trace
                THEN [handlers EXCEPT
                        ![h].pc = "committed",
                        ![h].trace = UpToInvalidate(c.trace),
                        ![h].entry = c.resp,
                        ![h].keys = DeletedKeys(store, handlers[h].req)]
                ELSE [handlers EXCEPT
                        ![h].pc = "done",
                        ![h].trace = c.trace,
                        ![h].resp = c.resp]
    /\ UNCHANGED <<cache, request, response, trace, before, nreq>>

\* A mutation runs up to the end of its transaction: it responds at once
\* when it fails, else it goes on to delete its keys.
TransactOf(h) ==
    /\ handlers[h].pc = "begun"
    /\ handlers[h].req.method # "GET"
    /\ \E c \in {full_dispatch_request(store, cache, handlers[h].req)} :
          /\ store' = c.store
          /\ handlers' =
                IF UpToInvalidate(c.trace) # c.trace
                THEN [handlers EXCEPT
                        ![h].pc = "committed",
                        ![h].trace = UpToInvalidate(c.trace),
                        ![h].entry = c.resp,
                        ![h].keys = DeletedKeys(store, handlers[h].req)]
                ELSE [handlers EXCEPT
                        ![h].pc = "done",
                        ![h].trace = c.trace,
                        ![h].resp = c.resp]
    /\ UNCHANGED <<cache, request, response, trace, before, nreq>>

\* The mutation deletes its keys and responds.
InvalidateOf(h) ==
    /\ handlers[h].pc = "committed"
    /\ cache' = [k \in DOMAIN cache \ handlers[h].keys |-> cache[k]]
    /\ handlers' = [handlers EXCEPT
                      ![h].pc = "done",
                      ![h].trace = @ \o <<"invalidate", "respond">>,
                      ![h].resp = handlers[h].entry]
    /\ UNCHANGED <<store, request, response, trace, before, nreq>>

Lookup == \E h \in Handlers : LookupOf(h)

Put == \E h \in Handlers : PutOf(h)

Transact == \E h \in Handlers : TransactOf(h)

Invalidate == \E h \in Handlers : InvalidateOf(h)

ParallelNext ==
    \/ Arrive
    \/ Lookup
    \/ Put
    \/ Transact
    \/ Invalidate

\* The next step of handler h.
HandlerStep(h) == LookupOf(h) \/ PutOf(h) \/ TransactOf(h) \/ InvalidateOf(h)

\* The threads run on: while a handler has a step to take, some handler
\* takes a step.
ParallelSpec ==
    /\ ParallelInit
    /\ [][ParallelNext]_vars
    /\ WF_vars(\E h \in Handlers : HandlerStep(h))

(***************************************************************************)
(* Time.  The views are cached with timeout=None, which the cache takes as *)
(* its default timeout; create_app sets no CACHE_DEFAULT_TIMEOUT, so an    *)
(* entry lives for the library's default of 300 seconds and is gone at the *)
(* first lookup after that.                                                *)
(***************************************************************************)
\* The default timeout passes with no request served: every entry has
\* expired.
Elapse ==
    /\ cache # EmptyDict
    /\ cache' = EmptyDict
    /\ UNCHANGED <<store, request, response, trace, before, nreq, handlers>>

TimedNext == Next \/ Elapse

TimedSpec == Init /\ [][TimedNext]_vars

(***************************************************************************)
(* The properties.  Each is stated on the state a request leaves: the      *)
(* request, its response and trace, and the store and cache before it.     *)
(***************************************************************************)
Mutating == request.method \in {"POST", "PUT", "DELETE"}
Succeeded == response.status \in {201, 204}
Failed == response.status \in {404, 415, 400, 409}
Cached(ca, path) == ViewKeys(path) \cap DOMAIN ca # {}
\* The map the request's URL named, as the request found it.
RequestMap == MapConverter_to_python(before.store, request.map)

\* C1: every persisted observer and obstacle lies inside its owning map:
\* 0 <= x < width and 0 <= y < height, in every reachable state.
C1_ChildrenInsideMap ==
    /\ \A o \in store.observers : InsideMap(o, MapOf(store, o))
    /\ \A o \in store.obstacles : InsideMap(o, MapOf(store, o))

\* C2: once mutations have succeeded, every GET that succeeds, in either
\* representation, answers what a fresh rendering of the store answers.
C2_GetIsFresh ==
    (request.method = "GET" /\ response.status = 200) =>
        response = Fresh(store, request)

\* C3: a handler invalidates cache entries only after its transaction has
\* committed.
C3_InvalidateAfterCommit ==
    \A i \in DOMAIN trace :
        trace[i] = "invalidate" => \E j \in 1..(i - 1) : trace[j] = "commit"

\* C4: a mutating request that ends in 404, 415, 400 or 409 leaves the store
\* and every cache entry as it found them, so nothing the handler changed in
\* memory before failing is there for a later request.
C4_FailureChangesNothing ==
    (Mutating /\ Failed) => (store = before.store /\ cache = before.cache)

\* C4's case: an observer PUT that updated the row in memory and then failed
\* the spatial check, with responses cached.
C4_Witness ==
    /\ request.method = "PUT" /\ request.route = "observeritem"
    /\ response.status = 400
    /\ trace # <<>> /\ trace[Len(trace)] = "spatial"
    /\ cache # EmptyDict

\* C5: every persisted map and observer has slug = slugify(name), after POST
\* and after PUT; a 'slug' or 'id' member of the document is ignored.
C5_SlugFromName ==
    /\ \A m \in store.maps : m.slug = slugify(m.name)
    /\ \A o \in store.observers : o.slug = slugify(o.name)
    /\ (Succeeded /\ request.doc.id.t # "absent") =>
          /\ \A m \in store.maps \ before.store.maps :
                m.id # IntOf(request.doc.id)
          /\ \A o \in store.observers \ before.store.observers :
                o.id # IntOf(request.doc.id)

\* C5's case: a PUT succeeded whose document carried a slug other than the
\* slug of its name.
C5_Witness ==
    /\ request.method = "PUT" /\ response.status = 204
    /\ request.doc.slug.t # "absent"
    /\ request.doc.slug.v # slugify(request.doc.name.v)
    /\ \E m \in store.maps \ before.store.maps : m.name = request.doc.name.v

\* C6: no observer or obstacle refers to a map that is not in the store, and
\* after a successful DELETE of a map none has that map's id.
C6_NoOrphans ==
    /\ \A o \in store.observers : \E m \in store.maps : m.id = o.map_id
    /\ \A o \in store.obstacles : \E m \in store.maps : m.id = o.map_id
    /\ (request.method = "DELETE" /\ request.route = "mapitem"
            /\ response.status = 204) =>
          /\ \A o \in store.observers : o.map_id # RequestMap.id
          /\ \A o \in store.obstacles : o.map_id # RequestMap.id

\* C6's case: a map that had an observer and an obstacle was deleted.
C6_Witness ==
    /\ request.method = "DELETE" /\ request.route = "mapitem"
    /\ response.status = 204
    /\ Map_observers(before.store, RequestMap) # {}
    /\ Map_obstacles(before.store, RequestMap) # {}

\* C7: of two map POSTs with the same name the first answers 201 and leaves
\* no collection entry cached; the second answers 409, creates no map and
\* invalidates nothing, so a collection body cached in between stays cached.
C7_DuplicatePost ==
    (request.method = "POST" /\ request.route = "mapcollection") =>
        /\ response.status = 201 =>
              /\ ~Cached(cache, url_mapcollection)
              /\ \E m \in store.maps \ before.store.maps :
                    m.name = request.doc.name.v
        /\ (RequestJson(request) /\ validate(request.doc, MapSchema)
                /\ \E m \in before.store.maps : m.name = request.doc.name.v) =>
              /\ response.status = 409
              /\ store = before.store
              /\ cache = before.cache
              /\ \A i \in DOMAIN trace : trace[i] # "invalidate"
        /\ before.prior = 201 => response.status = 409

\* C7's case: the same map POST twice, the first answered 201.
C7_Witness ==
    /\ request.method = "POST" /\ request.route = "mapcollection"
    /\ before.prior = 201
    /\ response.status = 409

C9_ObstacleTileCleared ==
    (request.route = "obstacleitem" /\ RequestMap # NotFound) =>
        /\ response.status = 204
        /\ ~\E o \in Map_obstacles(store, RequestMap) :
                o.x = request.x /\ o.y = request.y

\* C10: after a successful map POST, PUT or DELETE the cache holds no entry,
\* in either representation, for the collection path, for the path the
\* request named (PUT, DELETE) or for the path of the map's new slug (POST,
\* PUT).
C10_MapKeysInvalidated ==
    (request.route \in {"mapcollection", "mapitem"} /\ Mutating /\ Succeeded) =>
        /\ ~Cached(cache, url_mapcollection)
        /\ request.method # "POST" => ~Cached(cache, MapItemPath(request.map))
        /\ request.method # "DELETE" =>
              ~Cached(cache, MapItemPath(slugify(request.doc.name.v)))

\* C10's case: a PUT gave a map a new slug while the map's item was cached
\* under the old one.
C10_Witness ==
    /\ request.method = "PUT" /\ request.route = "mapitem"
    /\ response.status = 204
    /\ slugify(request.doc.name.v) # request.map
    /\ Cached(before.cache, MapItemPath(request.map))

ChildMutation ==
    /\ Mutating
    /\ request.route \in {"mapobservers", "mapobstacles", "observeritem", "obstacleitem"}
\* The observer the request's URL named, as the request found it.
RequestObserver == ObserverConverter_to_python(before.store, request.observer)
\* The map that owns the child the request wrote.
OwnerMap ==
    IF request.route = "observeritem" THEN MapOf(before.store, RequestObserver)
    ELSE RequestMap

\* C11: after a successful observer POST, PUT or DELETE or obstacle POST or
\* DELETE the cache holds no entry, in either representation, for the item
\* path of the map that owns the child nor (observers) for the observer's
\* own item path, whichever map slug the URL carried.
C11_ChildKeysInvalidated ==
    (ChildMutation /\ Succeeded) =>
        /\ ~Cached(cache, url_mapitem(OwnerMap))
        /\ request.route = "observeritem" =>
              ~Cached(cache, url_observeritem(OwnerMap, RequestObserver))
        /\ (request.route \in {"mapobservers", "observeritem"}
                /\ request.method # "DELETE") =>
              ~Cached(cache, ObserverItemPath(OwnerMap.slug,
                                              slugify(request.doc.name.v)))

\* C12: no observer POST, PUT or DELETE and no obstacle POST or DELETE,
\* successful or failed, removes or changes a cache entry of the map
\* collection path, in either representation.
C12_CollectionKeysKept ==
    ChildMutation =>
        \A k \in ViewKeys(url_mapcollection) :
            /\ k \in DOMAIN cache <=> k \in DOMAIN before.cache
            /\ k \in DOMAIN cache => cache[k] = before.cache[k]

\* C12's case: an observer was created while the collection was cached in
\* both representations.
C12_Witness ==
    /\ request.route = "mapobservers" /\ response.status = 201
    /\ ViewKeys(url_mapcollection) \subseteq DOMAIN before.cache
    /\ ViewKeys(url_mapcollection) \subseteq DOMAIN cache

\* A hypermedia body carries controls; a plain body carries none.
IsMasonBody(body) == "@controls" \in DOMAIN body

\* C13: the cache entry under the plain key of a path holds a plain body and
\* the entry under the hypermedia key a hypermedia body, so a GET negotiated
\* as plain JSON never answers a hypermedia body, nor the reverse.
C13_RepresentationKept ==
    /\ \A k \in DOMAIN cache :
          (k.view = "mason-view") <=> IsMasonBody(cache[k].body)
    /\ (request.method = "GET" /\ response.status = 200) =>
          ((request.accept = MASON) <=> IsMasonBody(response.body))

\* C13's case: a hypermedia GET answered from the cache while the plain
\* body of the same path is cached too.
C13_Witness ==
    /\ request.method = "GET" /\ request.accept = MASON
    /\ response.status = 200
    /\ trace # <<>> /\ trace[Len(trace)] = "hit"
    /\ ViewKeys(RequestPath(request)) \subseteq DOMAIN cache

\* The place of a step in the order resolve, content type, schema, spatial,
\* persist, invalidate, respond.
StepRank(step) ==
    CASE step = "resolve" -> 1
      [] step = "content-type" -> 2
      [] step = "schema" -> 3
      [] step = "spatial" -> 4
      [] step \in {"commit", "IntegrityError"} -> 5
      [] step = "invalidate" -> 6
      [] step = "respond" -> 7
\* The status the last step taken decides.
StatusOf(steps, method) ==
    IF steps = <<>> THEN 404
    ELSE CASE steps[Len(steps)] = "content-type" -> 415
           [] steps[Len(steps)] \in {"schema", "spatial"} -> 400
           [] steps[Len(steps)] = "IntegrityError" -> 409
           [] steps[Len(steps)] = "respond" -> IF method = "POST" THEN 201 ELSE 204
           [] OTHER -> 0
\* The slugs of the request's URL resolve.
Resolves ==
    \/ request.route = "mapcollection"
    \/ /\ RequestMap # NotFound
       /\ request.route = "observeritem" => RequestObserver # NotFound
\* The request writes a child whose document passes the schema.
ValidChildWrite ==
    /\ request.method \in {"POST", "PUT"}
    /\ request.route \in {"mapobservers", "mapobstacles", "observeritem"}
    /\ Resolves
    /\ RequestJson(request)
    /\ validate(request.doc,
                IF request.route = "mapobstacles" THEN ObstacleSchema
                ELSE ObserverSchema)
DocPosition == [x |-> IntOf(request.doc.x), y |-> IntOf(request.doc.y)]

\* C14: a mutating handler takes its steps in the order resolve, content
\* type, schema, spatial, persist, invalidate, respond; the first step that
\* fails decides the status and ends the handler: an unknown slug answers 404
\* whatever the body, a body that is not JSON answers 415 whatever its values,
\* a document outside the map answers 400 even when its name is taken.
C14_StepOrder ==
    Mutating =>
        /\ \A i, j \in DOMAIN trace :
              i < j => StepRank(trace[i]) < StepRank(trace[j])
        /\ response.status = StatusOf(trace, request.method)
        /\ ~Resolves => response.status = 404
        /\ (Resolves /\ request.method \in {"POST", "PUT"} /\ ~request.json) =>
              response.status = 415
        /\ (ValidChildWrite /\ ~InsideMap(DocPosition, RequestMap)) =>
              response.status = 400

\* C14's case: an observer POST whose document lies outside the map and
\* carries the name of an existing observer.
C14_Witness ==
    /\ request.route = "mapobservers"
    /\ ValidChildWrite
    /\ ~InsideMap(DocPosition, RequestMap)
    /\ \E o \in before.store.observers : o.name = request.doc.name.v
    /\ response.status = 400

\* The schema of the entity the request writes.
RequestSchema ==
    CASE request.route \in {"mapcollection", "mapitem"} -> MapSchema
      [] request.route \in {"mapobservers", "observeritem"} -> ObserverSchema
      [] request.route = "mapobstacles" -> ObstacleSchema

\* C15: a POST or PUT whose body is sent as JSON and whose document fails the
\* entity's schema (the empty object included) answers 400 and persists
\* nothing.
C15_SchemaViolationIs400 ==
    (request.method \in {"POST", "PUT"} /\ Resolves /\ request.json
        /\ ~validate(request.doc, RequestSchema)) =>
        (response.status = 400 /\ store = before.store)

DocOutside ==
    DocPosition.x >= RequestMap.width \/ DocPosition.y >= RequestMap.height

\* C16: an observer POST, observer PUT or obstacle POST whose document passes
\* the schema but has x >= width or y >= height of the map answers 400 and
\* creates or changes nothing; a document with 0 <= x < width and
\* 0 <= y < height is never rejected for its position.
C16_SpatialViolationIs400 ==
    ValidChildWrite =>
        /\ DocOutside =>
              (response.status = 400 /\ store = before.store
                    /\ cache = before.cache)
        /\ ~DocOutside => response.status \in {201, 204, 409}

\* C16's case: an observer PUT whose x is inside the map and whose y is the
\* map's height.
C16_Witness ==
    /\ request.route = "observeritem"
    /\ ValidChildWrite
    /\ DocPosition.x < RequestMap.width
    /\ DocPosition.y = RequestMap.height
    /\ response.status = 400

ValidMapWrite ==
    /\ request.method \in {"POST", "PUT"}
    /\ request.route \in {"mapcollection", "mapitem"}
    /\ Resolves
    /\ RequestJson(request)
    /\ validate(request.doc, MapSchema)
\* The maps other than the one the request updates.
OtherMaps ==
    IF request.method = "PUT" THEN before.store.maps \ {RequestMap}
    ELSE before.store.maps

\* C18: no two maps share a name or a slug in any reachable state, so a slug
\* resolves to at most one map; a valid map POST or PUT whose name no map has
\* but whose slug another map has answers 409 and changes nothing.
C18_MapSlugsUnique ==
    /\ \A m, q \in store.maps :
          m.id # q.id => (m.name # q.name /\ m.slug # q.slug)
    /\ (ValidMapWrite
            /\ (\A m \in before.store.maps : m.name # request.doc.name.v)
            /\ \E m \in OtherMaps : m.slug = slugify(request.doc.name.v)) =>
          (response.status = 409 /\ store = before.store
                /\ cache = before.cache)

\* C18's case: a map PUT with a new name whose slug is the slug of another
\* map.
C18_Witness ==
    /\ ValidMapWrite /\ request.method = "PUT"
    /\ \A m \in before.store.maps : m.name # request.doc.name.v
    /\ \E m \in OtherMaps : m.slug = slugify(request.doc.name.v)
    /\ response.status = 409

\* C19: a valid PUT that renames a map or an observer to the name of another
\* existing map or observer answers 409, leaves both entities unchanged and
\* both still resolve at their previous paths.
C19_RenameConflict ==
    /\ (ValidMapWrite /\ request.method = "PUT"
            /\ \E m \in OtherMaps : m.name = request.doc.name.v) =>
          /\ response.status = 409
          /\ store = before.store
          /\ \A m \in before.store.maps : MapConverter_to_python(store, m.slug) = m
    /\ (ValidChildWrite /\ request.route = "observeritem" /\ ~DocOutside
            /\ \E o \in before.store.observers \ {RequestObserver} :
                  o.name = request.doc.name.v) =>
          /\ response.status = 409
          /\ store = before.store
          /\ \A o \in before.store.observers :
                ObserverConverter_to_python(store, o.slug) = o

\* C19's case: an observer PUT with the name of another observer.
C19_Witness ==
    /\ ValidChildWrite /\ request.route = "observeritem" /\ ~DocOutside
    /\ \E o \in before.store.observers \ {RequestObserver} :
          o.name = request.doc.name.v
    /\ RequestObserver.name # request.doc.name.v
    /\ response.status = 409

\* The plain GET of the item a POST created, by the slugs of its Location.
LocationGet ==
    IF request.route = "mapcollection"
    THEN Request("GET", "mapitem", slugify(request.doc.name.v), <<>>,
                 0, 0, JSON, FALSE, NoDoc)
    ELSE Request("GET", "observeritem", request.map, slugify(request.doc.name.v),
                 0, 0, JSON, FALSE, NoDoc)
\* What that GET answers when it is the next request.
LocationResponse == full_dispatch_request(store, cache, LocationGet).resp
\* The request is a map or observer POST with a valid document whose name
\* and slug are free.
ValidCreate ==
    /\ request.method = "POST"
    /\ \/ /\ ValidMapWrite
          /\ \A m \in before.store.maps :
                /\ m.name # request.doc.name.v
                /\ m.slug # slugify(request.doc.name.v)
       \/ /\ ValidChildWrite /\ request.route = "mapobservers" /\ ~DocOutside
          /\ \A o \in before.store.observers :
                /\ o.name # request.doc.name.v
                /\ o.slug # slugify(request.doc.name.v)

\* C20: a valid map POST or observer POST answers 201 with the Location of
\* the item path built from slugify(name), and the plain GET of that Location
\* that follows answers 200 with every field of the document as submitted,
\* also when an earlier, since deleted, entity used the same path.
C20_PostThenGet ==
    ValidCreate =>
        /\ response.status = 201
        /\ response.location = RequestPath(LocationGet)
        /\ LocationResponse.status = 200
        /\ LocationResponse.body.name = request.doc.name.v
        /\ request.route = "mapcollection" =>
              /\ LocationResponse.body.width = IntOf(request.doc.width)
              /\ LocationResponse.body.height = IntOf(request.doc.height)
        /\ request.route = "mapobservers" =>
              /\ LocationResponse.body.x = IntOf(request.doc.x)
              /\ LocationResponse.body.y = IntOf(request.doc.y)
              /\ request.doc.vision.t # "absent" =>
                    LocationResponse.body.vision = request.doc.vision

\* The request is a PUT that gave a map or an observer another name.
Renamed ==
    /\ request.method = "PUT" /\ response.status = 204
    /\ \/ request.route = "mapitem" /\ request.doc.name.v # RequestMap.name
       \/ /\ request.route = "observeritem"
          /\ request.doc.name.v # RequestObserver.name
\* The plain GET of the request's path with the slug of the new name.
NewSlugGet ==
    IF request.route = "mapitem"
    THEN Request("GET", "mapitem", slugify(request.doc.name.v), <<>>,
                 0, 0, JSON, FALSE, NoDoc)
    ELSE Request("GET", "observeritem", request.map, slugify(request.doc.name.v),
                 0, 0, JSON, FALSE, NoDoc)
\* The plain GET of the path the PUT named.
OldSlugGet ==
    Request("GET", request.route, request.map, request.observer,
            0, 0, JSON, FALSE, NoDoc)
NewSlugResponse == full_dispatch_request(store, cache, NewSlugGet).resp
OldSlugResponse == full_dispatch_request(store, cache, OldSlugGet).resp
\* An entity of the request's kind has the slug the PUT named.
OldSlugTaken ==
    IF request.route = "mapitem"
    THEN \E m \in store.maps : m.slug = request.map
    ELSE \E o \in store.observers : o.slug = request.observer

\* C21: after a PUT that answered 204 and gave a map or an observer a new
\* name, the plain GET of the path built from the new slug answers 200 with
\* every field of the document as submitted, and the GET of the old path
\* answers 404 unless an entity has that slug.
C21_PutThenGet ==
    Renamed =>
        /\ NewSlugResponse.status = 200
        /\ NewSlugResponse.body.name = request.doc.name.v
        /\ request.route = "mapitem" =>
              /\ NewSlugResponse.body.width = IntOf(request.doc.width)
              /\ NewSlugResponse.body.height = IntOf(request.doc.height)
        /\ request.route = "observeritem" =>
              /\ NewSlugResponse.body.x = IntOf(request.doc.x)
              /\ NewSlugResponse.body.y = IntOf(request.doc.y)
              /\ request.doc.vision.t # "absent" =>
                    NewSlugResponse.body.vision = request.doc.vision
        /\ ~OldSlugTaken => OldSlugResponse.status = 404

\* The GETs, in both representations, of the item paths of the entity a
\* DELETE removed: the path the DELETE named and, for an observer, its path
\* under the map that owned it.
DeletedItemGets ==
    IF request.route = "mapitem"
    THEN {Request("GET", "mapitem", request.map, <<>>, 0, 0, a, FALSE, NoDoc) :
            a \in Accepts}
    ELSE {Request("GET", "observeritem", m, request.observer, 0, 0, a, FALSE, NoDoc) :
            m \in {request.map, OwnerMap.slug}, a \in Accepts}

\* C22: after a successful DELETE of a map or an observer, the GET of its
\* item path answers 404 in either representation, also when a body was
\* cached for the path; a GET whose slugs do not resolve answers 404 with no
\* body and leaves the cache alone, whatever the cache holds for its path.
C22_DeletedIs404 ==
    /\ (request.method = "DELETE" /\ response.status = 204
            /\ request.route \in {"mapitem", "observeritem"}) =>
          \A g \in DeletedItemGets :
              LET c == full_dispatch_request(store, cache, g)
              IN  /\ c.resp.status = 404
                  /\ c.resp.body = EmptyDict
                  /\ c.cache = cache
    /\ (request.method = "GET" /\ ~Resolves) =>
          /\ response.status = 404
          /\ response.body = EmptyDict
          /\ cache = before.cache

\* C22's case: an observer was deleted whose item path was cached in both
\* representations, and an entry for its path under its own map is still
\* cached after the DELETE.
C22_Witness ==
    /\ request.method = "DELETE" /\ request.route = "observeritem"
    /\ response.status = 204
    /\ ViewKeys(RequestPath(request)) \subseteq DOMAIN before.cache
    /\ Cached(cache, url_observeritem(OwnerMap, RequestObserver))

\* Every handler that began has responded.
AllDone == \A h \in Handlers : handlers[h].pc \in {"idle", "done"}
\* Handler h ran a mutation that committed and deleted its keys.
Committed(h) ==
    /\ handlers[h].pc = "done"
    /\ handlers[h].req.method # "GET"
    /\ handlers[h].resp.status \in {201, 204}
\* Handler h ran a GET and has responded.
GetDone(h) == handlers[h].pc = "done" /\ handlers[h].req.method = "GET"

\* C23: when a GET and a mutation of the same path ran in parallel, then once
\* the mutation has deleted its keys and both handlers have responded, the
\* cache holds no body for that path rendered from the store the mutation
\* superseded, and a later GET of the path answers what the committed store
\* renders.
C23_NoStaleAfterInvalidation ==
    \A g, m \in Handlers :
        (/\ AllDone
         /\ GetDone(g)
         /\ Committed(m)
         /\ RequestPath(handlers[g].req) = RequestPath(handlers[m].req)) =>
            /\ RequestKey(handlers[g].req) \in DOMAIN cache =>
                  cache[RequestKey(handlers[g].req)] @@ [location |-> <<>>]
                      = Fresh(store, handlers[g].req)
            /\ full_dispatch_request(store, cache, handlers[g].req).resp
                  = Fresh(store, handlers[g].req)

\* Handlers i and j run a map POST each, or an observer POST each, with the
\* same name, which no entity of that kind had at the start, and no other
\* mutation runs beside them.
SameNamePosts(i, j) ==
    /\ i # j
    /\ handlers[i].pc # "idle" /\ handlers[j].pc # "idle"
    /\ handlers[i].req.method = "POST" /\ handlers[j].req.method = "POST"
    /\ handlers[i].req.route = handlers[j].req.route
    /\ handlers[i].req.route \in {"mapcollection", "mapobservers"}
    /\ handlers[i].req.doc.name = handlers[j].req.doc.name
    /\ \A h \in Handlers \ {i, j} : handlers[h].req.method \in {"", "GET"}
    /\ \A r \in {handlers[i].req, handlers[j].req} :
          /\ r.json /\ validate(r.doc, IF r.route = "mapcollection" THEN MapSchema
                                       ELSE ObserverSchema)
          /\ r.route = "mapobservers" =>
                /\ MapConverter_to_python(before.store, r.map) # NotFound
                /\ IntOf(r.doc.x) < MapConverter_to_python(before.store, r.map).width
                /\ IntOf(r.doc.y) < MapConverter_to_python(before.store, r.map).height
    /\ \A e \in (IF handlers[i].req.route = "mapcollection"
                 THEN before.store.maps ELSE before.store.observers) :
          /\ e.name # handlers[i].req.doc.name.v
          /\ e.slug # slugify(handlers[i].req.doc.name.v)
\* The rows of the kind the POST of handler h creates that have its name.
RowsNamed(h) ==
    {e \in (IF handlers[h].req.route = "mapcollection"
            THEN store.maps ELSE store.observers) :
        e.name = handlers[h].req.doc.name.v}
Invalidated(h) == \E k \in DOMAIN handlers[h].trace : handlers[h].trace[k] = "invalidate"

\* C24: of two map POSTs, or two observer POSTs, with the same name that run
\* in parallel, in every interleaving one answers 201 and the other 409, one
\* entity with that name is persisted, and only the handler that answers 201
\* deletes cache keys; the conflict is decided by the commit alone.
C24_OneWinner ==
    \A i, j \in Handlers :
        SameNamePosts(i, j) =>
            /\ Cardinality(RowsNamed(i)) <= 1
            /\ handlers[i].resp.status \in {0, 201, 409}
            /\ handlers[i].resp.status = 409 =>
                  (~Invalidated(i) /\ "IntegrityError" = handlers[i].trace[Len(handlers[i].trace)])
            /\ (handlers[i].pc = "done" /\ handlers[j].pc = "done") =>
                  /\ {handlers[i].resp.status, handlers[j].resp.status} = {201, 409}
                  /\ Cardinality(RowsNamed(i)) = 1
                  /\ handlers[i].resp.status = 201 => Invalidated(i)

\* C24's case: of two observer POSTs with one name on two maps, one has
\* answered 409 while the other has committed and not yet deleted its keys.
C24_Witness ==
    \E i, j \in Handlers :
        /\ SameNamePosts(i, j)
        /\ handlers[i].req.route = "mapobservers"
        /\ handlers[i].req.map # handlers[j].req.map
        /\ handlers[i].pc = "done" /\ handlers[i].resp.status = 409
        /\ handlers[j].pc = "committed"

\* How far a handler has come.
PcRank(pc) ==
    CASE pc = "idle" -> 0
      [] pc = "begun" -> 1
      [] pc \in {"rendered", "committed"} -> 2
      [] pc = "done" -> 3
\* A handler has no response before it is done and then one of the terminal
\* statuses; a handler that has begun and is not done can take its next step
\* whatever the other handlers are doing.
TerminalResponses ==
    \A h \in Handlers :
        /\ handlers[h].pc # "done" => handlers[h].resp = NoResponse
        /\ handlers[h].pc = "done" =>
              handlers[h].resp.status \in {200, 201, 204, 404, 415, 400, 409}
        /\ handlers[h].pc \in {"begun", "rendered", "committed"} =>
              ENABLED HandlerStep(h)
\* Every step of a handler takes it forward, and a handler that has responded
\* does nothing more.
ForwardSteps ==
    \A h \in Handlers :
        /\ handlers'[h] # handlers[h] =>
              PcRank(handlers'[h].pc) > PcRank(handlers[h].pc)
        /\ handlers[h].pc = "done" => handlers'[h] = handlers[h]

C26_MediaTypeAsNegotiated ==
    (request.method = "GET" /\ response.status = 200) =>
        /\ response.mimetype = request.accept
        /\ IsMasonBody(response.body) <=> request.accept = MASON

\* C27: the spatial check of an observer PUT compares the document's x and y
\* with the width and height of the map that owns the observer, through
\* every URL that resolves the observer: a valid PUT is rejected for its
\* position exactly when the position lies outside the owning map.
C27_PutCheckedAgainstOwner ==
    (ValidChildWrite /\ request.route = "observeritem") =>
        /\ (DocPosition.x < OwnerMap.width /\ DocPosition.y < OwnerMap.height) =>
              response.status \in {204, 409}
        /\ (DocPosition.x >= OwnerMap.width \/ DocPosition.y >= OwnerMap.height) =>
              response.status = 400

\* C28: a GET, PUT or DELETE of /maps/{M}/observers/{O}/ is served only when
\* observer O belongs to map M: when both slugs resolve and O belongs to
\* another map the answer is 404 and neither the store nor the cache changes.
C28_ObserverOfAnotherMapIs404 ==
    (request.route = "observeritem" /\ Resolves
        /\ RequestObserver.map_id # RequestMap.id) =>
        /\ response.status = 404
        /\ store = before.store
        /\ cache = before.cache

\* The map a successful PUT wrote, as the store holds it after the request.
UpdatedMap == CHOOSE m \in store.maps : m.id = RequestMap.id

\* C29: a successful map PUT changes that map's name, slug, width and height
\* and nothing else: the other maps, the observers and the obstacles are as
\* they were; a valid PUT whose name and slug no other map has answers 204
\* also when the new width or height leaves a child outside the map.
C29_MapPutFrame ==
    /\ (request.method = "PUT" /\ request.route = "mapitem"
            /\ response.status = 204) =>
          /\ store.observers = before.store.observers
          /\ store.obstacles = before.store.obstacles
          /\ store.maps \ {UpdatedMap} = before.store.maps \ {RequestMap}
          /\ UpdatedMap = [id |-> RequestMap.id,
                           name |-> request.doc.name.v,
                           slug |-> slugify(request.doc.name.v),
                           width |-> IntOf(request.doc.width),
                           height |-> IntOf(request.doc.height)]
    /\ (ValidMapWrite /\ request.method = "PUT"
            /\ \A m \in OtherMaps :
                  /\ m.name # request.doc.name.v
                  /\ m.slug # slugify(request.doc.name.v)) =>
          response.status = 204

\* C29's case: a map PUT answered 204 with a size that leaves an observer and
\* an obstacle of the map outside it.
C29_Witness ==
    /\ request.method = "PUT" /\ request.route = "mapitem"
    /\ response.status = 204
    /\ \E o \in Map_observers(store, UpdatedMap) :
          o.x >= UpdatedMap.width \/ o.y >= UpdatedMap.height
    /\ \E o \in Map_obstacles(store, UpdatedMap) :
          o.x >= UpdatedMap.width \/ o.y >= UpdatedMap.height

\* The GETs of the collection and of a map, rendered from a store.
CollectionGet(a) == Request("GET", "mapcollection", <<>>, <<>>, 0, 0, a, FALSE, NoDoc)
ItemGet(m, a) == Request("GET", "mapitem", m.slug, <<>>, 0, 0, a, FALSE, NoDoc)
\* A store's maps alone.
MapsOnly(st) == [st EXCEPT !.observers = {}, !.obstacles = {}]
\* The members of a serialized list, each cut down to the fields named.
Members(list, fields) == {[f \in fields |-> list[i][f]] : i \in DOMAIN list}

\* C30: the collection body lists each map's name, slug, width and height and
\* never an observers or obstacles array: it is what the maps alone render,
\* so no observer or obstacle operation changes a fresh render of it; the
\* body of a map always has both arrays, which list the observers and the
\* obstacles the map owns and no other.
C30_RelationsOnlyInItem ==
    \A a \in Accepts :
        /\ \A i \in DOMAIN Fresh(store, CollectionGet(a)).body.maps :
              DOMAIN Fresh(store, CollectionGet(a)).body.maps[i]
                    \ {"@controls"} = {"name", "slug", "width", "height"}
        /\ Fresh(store, CollectionGet(a)) = Fresh(MapsOnly(store), CollectionGet(a))
        /\ ChildMutation =>
              Fresh(store, CollectionGet(a)) = Fresh(before.store, CollectionGet(a))
        /\ \A m \in store.maps :
              LET body == Fresh(store, ItemGet(m, a)).body
              IN  /\ {"observers", "obstacles"} \subseteq DOMAIN body
                  /\ Len(body.observers) = Cardinality(Map_observers(store, m))
                  /\ Len(body.obstacles) = Cardinality(Map_obstacles(store, m))
                  /\ Members(body.observers, {"name", "slug", "vision", "x", "y"})
                        = {[name |-> o.name, slug |-> o.slug, vision |-> o.vision,
                            x |-> o.x, y |-> o.y] : o \in Map_observers(store, m)}
                  /\ Members(body.obstacles, {"x", "y"})
                        = {[x |-> o.x, y |-> o.y] : o \in Map_obstacles(store, m)}

\* C30's case: an observer was created on a map that has an obstacle while
\* another map has no child at all.
C30_Witness ==
    /\ request.route = "mapobservers" /\ response.status = 201
    /\ Map_obstacles(store, RequestMap) # {}
    /\ Cardinality(Map_observers(store, RequestMap)) > 1
    /\ \E m \in store.maps :
          Map_observers(store, m) = {} /\ Map_obstacles(store, m) = {}

\* The request is a hypermedia GET that answered 200.
MasonGet ==
    request.method = "GET" /\ request.accept = MASON /\ response.status = 200
\* The method and the schema of a control are the ones given.
ControlIs(ctl, method, schema) == ctl.method = method /\ ctl.schema = schema

\* C31: the hypermedia body of a map carries exactly the controls self,
\* collection, edit (PUT, map schema), pwp-map:delete, profile,
\* pwp-map:create-observer and pwp-map:create-obstacle (POST, the child's
\* schema); the body of an observer exactly self, up, edit (PUT, observer
\* schema), pwp-map:delete and profile; the collection body exactly self,
\* pwp-map:create-map (POST, map schema) and profile.
C31_PrimaryControls ==
    MasonGet =>
        LET ctl == response.body["@controls"]
        IN  /\ request.route = "mapitem" =>
                  /\ DOMAIN ctl = {"self", "collection", "edit", "pwp-map:delete",
                                   "profile", "pwp-map:create-observer",
                                   "pwp-map:create-obstacle"}
                  /\ ControlIs(ctl["edit"], "PUT", "Map")
                  /\ ControlIs(ctl["pwp-map:delete"], "DELETE", "")
                  /\ ControlIs(ctl["pwp-map:create-observer"], "POST", "Observer")
                  /\ ControlIs(ctl["pwp-map:create-obstacle"], "POST", "Obstacle")
                  /\ \A n \in {"self", "collection", "profile"} :
                        ControlIs(ctl[n], "", "")
            /\ request.route = "observeritem" =>
                  /\ DOMAIN ctl = {"self", "up", "edit", "pwp-map:delete", "profile"}
                  /\ ControlIs(ctl["edit"], "PUT", "Observer")
                  /\ ControlIs(ctl["pwp-map:delete"], "DELETE", "")
                  /\ \A n \in {"self", "up", "profile"} : ControlIs(ctl[n], "", "")
            /\ request.route = "mapcollection" =>
                  /\ DOMAIN ctl = {"self", "pwp-map:create-map", "profile"}
                  /\ ControlIs(ctl["pwp-map:create-map"], "POST", "Map")
                  /\ \A n \in {"self", "profile"} : ControlIs(ctl[n], "", "")

\* C31's case: the hypermedia body of an observer, rendered by the second
\* request served.
C31_Witness ==
    /\ MasonGet /\ request.route = "observeritem"
    /\ trace # <<>> /\ trace[Len(trace)] = "render"
    /\ nreq > 1

\* A nested item carries the one control named, with the method and the
\* target given, and no other.
OnlyControl(item, name, method, href) ==
    /\ DOMAIN item["@controls"] = {name}
    /\ ControlIs(item["@controls"][name], method, "")
    /\ item["@controls"][name].href = href

\* C32: in a hypermedia body a map nested in the collection and an observer
\* nested in a map carry only self, the path of their own item, and an
\* obstacle nested in a map carries only pwp-map:delete with method DELETE,
\* the path /maps/{owner slug}/obstacles/{x}/{y}/ of its own x and y; no
\* nested item carries an edit, create or profile control.
C32_NestedControls ==
    MasonGet =>
        LET body == response.body
        IN  /\ request.route = "mapcollection" =>
                  \A i \in DOMAIN body.maps :
                      OnlyControl(body.maps[i], "self", "",
                                  <<<<"api">>, <<"maps">>, body.maps[i].slug>>)
            /\ request.route = "mapitem" =>
                  /\ \A i \in DOMAIN body.observers :
                        OnlyControl(body.observers[i], "self", "",
                                    <<<<"api">>, <<"maps">>, body.slug,
                                      <<"observers">>, body.observers[i].slug>>)
                  /\ \A i \in DOMAIN body.obstacles :
                        OnlyControl(body.obstacles[i], "pwp-map:delete", "DELETE",
                                    <<<<"api">>, <<"maps">>, body.slug, <<"obstacles">>,
                                      <<ToString(body.obstacles[i].x)>>,
                                      <<ToString(body.obstacles[i].y)>>>>)

\* C32's case: the hypermedia body of a map that lists an observer and an
\* obstacle whose x and y differ.
C32_Witness ==
    /\ MasonGet /\ request.route = "mapitem"
    /\ Len(response.body.observers) > 0
    /\ \E i \in DOMAIN response.body.obstacles :
          response.body.obstacles[i].x # response.body.obstacles[i].y

\* The request a client makes when it follows a control: the route and the
\* slugs are read off the control's target.
Follow(method, href, accept, doc) ==
    Request(method,
            CASE Len(href) = 2 -> "mapcollection"
              [] Len(href) = 3 -> "mapitem"
              [] Len(href) = 4 /\ href[4] = ObserversSeg -> "mapobservers"
              [] Len(href) = 4 /\ href[4] # ObserversSeg -> "mapobstacles"
              [] Len(href) = 5 -> "observeritem"
              [] Len(href) = 6 -> "obstacleitem",
            IF Len(href) >= 3 THEN href[3] ELSE <<>>,
            IF Len(href) = 5 THEN href[5] ELSE <<>>,
            IF Len(href) = 6 THEN CHOOSE n \in 0..MaxDim : IntSeg(n) = href[5] ELSE 0,
            IF Len(href) = 6 THEN CHOOSE n \in 0..MaxDim : IntSeg(n) = href[6] ELSE 0,
            accept, doc # NoDoc, doc)
\* The status it is answered in the current state.
FollowStatus(method, href, doc) ==
    full_dispatch_request(store, cache,
        Follow(method, href, IF method = "GET" THEN MASON ELSE "", doc)).resp.status
\* The names no row of a table has, by name or by slug.
FreeNames(rows) ==
    {n \in Names : \A r \in rows : r.name # n /\ r.slug # slugify(n)}
\* Every control of an item's body leads to an operation that succeeds; doc
\* is the valid document sent with edit.
ControlsSucceed(item, doc) ==
    \A n \in DOMAIN item["@controls"] :
        LET href == item["@controls"][n].href
        IN  /\ n \in {"self", "collection", "up"} => FollowStatus("GET", href, NoDoc) = 200
            /\ n = "pwp-map:delete" => FollowStatus("DELETE", href, NoDoc) = 204
            /\ n = "edit" => FollowStatus("PUT", href, doc) = 204
            /\ n = "pwp-map:create-map" =>
                  \A f \in FreeNames(store.maps) :
                      FollowStatus("POST", href, MapDoc(f, 1, 1)) = 201
            /\ n = "pwp-map:create-observer" =>
                  \A f \in FreeNames(store.observers) :
                      FollowStatus("POST", href, ObserverDoc(f, 0, 0)) = 201
            /\ n = "pwp-map:create-obstacle" =>
                  FollowStatus("POST", href, ObstacleDoc(0, 0)) = 201

\* C33: every control of a hypermedia body a GET returned, rendered or taken
\* from the cache, and of every item nested in it, targets an operation that
\* succeeds in the current state: self, collection and up answer 200, delete
\* 204, edit with a valid document 204, create with a valid document and an
\* unused name 201; no body links to an entity that is gone.
C33_ControlsSucceed ==
    MasonGet =>
        LET body == response.body
        IN  /\ ControlsSucceed(body,
                  IF request.route = "observeritem"
                  THEN ObserverDoc(body.name, 0, 0)
                  ELSE IF request.route = "mapitem"
                  THEN MapDoc(body.name, body.width, body.height)
                  ELSE NoDoc)
            /\ request.route = "mapcollection" =>
                  \A i \in DOMAIN body.maps : ControlsSucceed(body.maps[i], NoDoc)
            /\ request.route = "mapitem" =>
                  /\ \A i \in DOMAIN body.observers :
                        ControlsSucceed(body.observers[i], NoDoc)
                  /\ \A i \in DOMAIN body.obstacles :
                        ControlsSucceed(body.obstacles[i], NoDoc)

\* The relation names of the application's own namespace.
CustomRelations ==
    {"pwp-map:delete", "pwp-map:create-map", "pwp-map:create-observer",
     "pwp-map:create-obstacle"}
\* The items nested in a hypermedia body.
NestedItems(body) ==
    (IF "maps" \in DOMAIN body THEN {body.maps[i] : i \in DOMAIN body.maps} ELSE {})
    \cup (IF "observers" \in DOMAIN body
          THEN {body.observers[i] : i \in DOMAIN body.observers} ELSE {})
    \cup (IF "obstacles" \in DOMAIN body
          THEN {body.obstacles[i] : i \in DOMAIN body.obstacles} ELSE {})
CarriesCustomControl(item) ==
    "@controls" \in DOMAIN item /\ DOMAIN item["@controls"] \cap CustomRelations # {}

\* C34: every hypermedia response body that carries a control named in the
\* pwp-map namespace, at its top level or in a nested item, declares the
\* pwp-map namespace at its top level, once for the response: no nested item
\* declares it again.
C34_NamespaceDeclaredOnce ==
    (response.status = 200 /\ IsMasonBody(response.body)) =>
        /\ (CarriesCustomControl(response.body)
                \/ \E item \in NestedItems(response.body) : CarriesCustomControl(item)) =>
              /\ "@namespaces" \in DOMAIN response.body
              /\ response.body["@namespaces"] = {"pwp-map"}
        /\ \A item \in NestedItems(response.body) : "@namespaces" \notin DOMAIN item

\* C34's case: the hypermedia body of a map whose nested obstacle carries the
\* delete control, answered from the cache.
C34_Witness ==
    /\ MasonGet /\ request.route = "mapitem"
    /\ trace # <<>> /\ trace[Len(trace)] = "hit"
    /\ \E item \in NestedItems(response.body) : CarriesCustomControl(item)

\* C35: a cache entry is created only by a GET that answered 200, under the
\* key of its path and representation, and holds the body the GET rendered;
\* every later GET of that key is answered the entry unchanged; an entry
\* leaves the cache or changes only when a successful mutation deletes its
\* key: after a GET, after a failed request and as time passes, every entry
\* the last request left is still there.
C35_EntriesLiveUntilInvalidated ==
    /\ \A k \in DOMAIN cache \ DOMAIN before.cache :
          /\ request.method = "GET" /\ response.status = 200
          /\ k = RequestKey(request)
          /\ cache[k] @@ [location |-> <<>>] = response
          /\ response = Fresh(before.store, request)
    /\ \A k \in DOMAIN before.cache :
          (k \notin DOMAIN cache \/ cache[k] # before.cache[k]) =>
              /\ Mutating /\ Succeeded
              /\ k \in DeletedKeys(before.store, request)
    /\ (request.method = "GET" /\ response.status = 200
            /\ RequestKey(request) \in DOMAIN before.cache) =>
          response = before.cache[RequestKey(request)] @@ [location |-> <<>>]

\* The request is an obstacle POST with a valid document inside the map.
ValidObstaclePost ==
    /\ request.route = "mapobstacles" /\ ValidChildWrite
    /\ DocPosition.x < RequestMap.width /\ DocPosition.y < RequestMap.height
\* The obstacles the request's map holds at the document's tile.
ObstaclesAtTile(st) ==
    {o \in st.obstacles : /\ o.map_id = RequestMap.id
                          /\ o.x = DocPosition.x /\ o.y = DocPosition.y}

ObstacleDeleted == request.route = "obstacleitem" /\ response.status = 204
\* The tables as the handler's session holds them when the handler returns.
SessionAfter == dispatch_request(Begin(before.store, before.cache), request).sess
\* The obstacles of the request's map at the request's tile.
AtRequestTile(o) ==
    o.map_id = RequestMap.id /\ o.x = request.x /\ o.y = request.y

\* C37: an obstacle DELETE on map M at (x, y) changes nothing except
\* obstacles of M at exactly (x, y): its delete statement removes those rows
\* and no other, the obstacles of M at other tiles, the obstacles of other
\* maps at (x, y), the observers and the maps are as they were, and the only
\* cache keys it removes are the two keys of M's item path.
C37_ObstacleDeleteFrame ==
    ObstacleDeleted =>
        /\ SessionAfter.obstacles = {o \in before.store.obstacles : ~AtRequestTile(o)}
        /\ SessionAfter.maps = before.store.maps
        /\ SessionAfter.observers = before.store.observers
        /\ store.maps = before.store.maps
        /\ store.observers = before.store.observers
        /\ store.obstacles \subseteq before.store.obstacles
        /\ \A o \in before.store.obstacles : ~AtRequestTile(o) => o \in store.obstacles
        /\ DOMAIN cache =
              DOMAIN before.cache
                \ {[view |-> v, path |-> <<<<"api">>, <<"maps">>, request.map>>] :
                      v \in {"json-view", "mason-view"}}
        /\ \A k \in DOMAIN cache : cache[k] = before.cache[k]

\* C37's case: the DELETE named a tile that holds an obstacle, on a map with
\* an observer and with its item cached in both representations, while the
\* collection and an observer were cached too.
C37_Witness ==
    /\ ObstacleDeleted
    /\ \E o \in before.store.obstacles : AtRequestTile(o)
    /\ Map_observers(before.store, RequestMap) # {}
    /\ ViewKeys(MapItemPath(request.map)) \subseteq DOMAIN before.cache
    /\ Cardinality(DOMAIN cache) > 2

\* The request is an observer PUT that was served.
ObserverUpdated ==
    request.method = "PUT" /\ request.route = "observeritem" /\ response.status = 204
\* The observer the PUT wrote, as the store holds it after the request.
UpdatedObserver == CHOOSE o \in store.observers : o.id = RequestObserver.id

\* C38: a successful observer PUT replaces the observer's name, slug, vision,
\* x and y and nothing else: the observer keeps its id and its map, the
\* other observers, the maps and the obstacles are as they were, and a
\* document with no vision leaves the observer with no vision (unlimited)
\* instead of the vision it had.
C38_ObserverPutFrame ==
    ObserverUpdated =>
        /\ \E o \in store.observers : o.id = RequestObserver.id
        /\ UpdatedObserver =
              [id |-> RequestObserver.id,
               map_id |-> RequestObserver.map_id,
               name |-> request.doc.name.v,
               slug |-> slugify(request.doc.name.v),
               vision |-> IF request.doc.vision.t = "absent"
                          THEN [t |-> "null", v |-> <<>>]
                          ELSE request.doc.vision,
               x |-> IntOf(request.doc.x),
               y |-> IntOf(request.doc.y)]
        /\ store.observers \ {UpdatedObserver}
              = before.store.observers \ {RequestObserver}
        /\ store.maps = before.store.maps
        /\ store.obstacles = before.store.obstacles

\* C38's case: a PUT with no vision, through the path of a map that does not
\* own the observer, on an observer that had a vision.
C38_Witness ==
    /\ ObserverUpdated
    /\ request.doc.vision.t = "absent"
    /\ RequestObserver.vision.t = "integer"
    /\ UpdatedObserver.vision.t = "null"
    /\ RequestMap.id # RequestObserver.map_id
    /\ UpdatedObserver.map_id = RequestObserver.map_id

\* A member of the document is a number below the minimum its schema sets.
BelowMinimum(doc, schema) ==
    \E f \in DOMAIN schema.properties :
        /\ schema.properties[f].hasMin
        /\ doc[f].t \in {"integer", "number"}
        /\ doc[f].v[1] < schema.properties[f].minimum

\* C39: in every reachable state every map has width >= 1 and height >= 1,
\* every observer and obstacle has x >= 0 and y >= 0, and every observer's
\* vision is absent or >= 0; a POST or PUT that reaches its handler with a
\* JSON document holding a value below one of these minimums answers 400 and
\* persists nothing.
C39_MinimumsHold ==
    /\ \A m \in store.maps : m.width >= 1 /\ m.height >= 1
    /\ \A o \in store.observers :
          /\ o.x >= 0 /\ o.y >= 0
          /\ o.vision.t = "null" \/ o.vision.v[1] >= 0
    /\ \A o \in store.obstacles : o.x >= 0 /\ o.y >= 0
    /\ (request.method \in {"POST", "PUT"} /\ Resolves /\ request.json
            /\ BelowMinimum(request.doc, RequestSchema)) =>
          (response.status = 400 /\ store = before.store)

\* C39's case: an observer PUT whose document is valid but for a vision
\* below 0, answered 400 by the schema.
C39_Witness ==
    /\ request.method = "PUT" /\ request.route = "observeritem" /\ Resolves
    /\ request.json
    /\ request.doc.vision.t = "integer" /\ request.doc.vision.v[1] < 0
    /\ request.doc.x.v[1] >= 0 /\ request.doc.y.v[1] >= 0
    /\ response.status = 400
    /\ trace[Len(trace)] = "schema"

====
